---- MODULE Spec2Model ----
(***************************************************************************)
(* A model of the lynq-js browser tracker (src/unnamed/part_000): the      *)
(* AnalyticsTracker session lifecycle over localStorage, the pre-init      *)
(* queue, event dispatch through sendBeacon, and the PerformanceTracker    *)
(* metric aggregation and final flush.                                     *)
(*                                                                         *)
(* Conventions.  Identifiers (session id, client id, page-load id) are     *)
(* positive naturals; a generated identifier is the least one that differs *)
(* from every identifier of its kind still held anywhere (random UUIDs     *)
(* are interchangeable); 0 stands for JavaScript null/undefined.  localStorage holds strings: the expiration entry is a  *)
(* sequence of decimal digits, written by StringOf and read by ParseInt;   *)
(* the empty sequence stands for an absent key (getItem returns null).     *)
(* Every handler of the page runs to completion (one action each); the     *)
(* only suspension point is the await inside trackEvent.                   *)
(***************************************************************************)
EXTENDS Integers, Sequences, FiniteSets, TLC

\* ---------------------------------------------------------------- bounds
MaxTicks == 3
MaxQueue == 2
MaxBeacons == 3
MaxPending == 1
MaxSignals == 1
MaxUnsupported == 1
MaxShifts == 3
MaxBatch == 2
MaxInteractions == 5
MaxLongTasks == 3
MaxTimelySteps == 8

\* ------------------------------------------------------ program constants
SESSION_DURATION == 10 * 60 * 1000
RefreshPeriod == SESSION_DURATION \div 2
SessionGapMs == 1000
LongTaskBudgetMs == 50
SlowResourceMs == 100

\* One step of the model clock: the refresh period.
TickMs == RefreshPeriod

NaN == 0 - 1
Undefined == 0 - 1

Sources == {"paint", "lcp", "cls", "inp", "longtasks", "resource", "navigation"}
ObserverNames == {"paint", "lcp", "cls", "inp", "longtasks"}
StorageCalls == {"getCI", "setCI", "getSI", "getSE", "setSI", "setSE"}
Data == {"a", "b"}
Paths == {"/", "/p"}

\* ------------------------------------------------ string conversions (JS)
RECURSIVE StringOf(_)
StringOf(n) ==
  IF n < 10 THEN <<n>> ELSE StringOf(n \div 10) \o <<n % 10>>

RECURSIVE ParseDigits(_, _)
ParseDigits(s, acc) ==
  IF s = <<>> THEN acc ELSE ParseDigits(Tail(s), acc * 10 + Head(s))

ParseInt(s) == IF s = <<>> THEN NaN ELSE ParseDigits(s, 0)

\* ------------------------------------------------------------- sequences
RECURSIVE SumValues(_)
SumValues(s) == IF s = <<>> THEN 0 ELSE Head(s).value + SumValues(Tail(s))

Max(a, b) == IF a >= b THEN a ELSE b

SeqsUpTo(S, n) == UNION {[1..k -> S] : k \in 1..n}

\* ------------------------------------------------------------ data shapes
NoSession == [sessionId |-> 0, expirationTime |-> 0, startTime |-> 0]
NoData == [kind |-> "none"]
CustomData(d) == [kind |-> "custom", d |-> d]

\* What the host has delivered to the interaction and long-task observers.
NothingDelivered == [inp |-> <<>>, longtasks |-> <<>>]

\* A second same-origin browsing context that has not loaded the page.
NoPeer ==
  [phase |-> "closed", session |-> NoSession, visible |-> TRUE,
   sessionInterval |-> FALSE, timerDue |-> 0]

InitialMetrics ==
  [lcp |-> 0, cls |-> 0, inp |-> 0, fcp |-> 0, ttfb |-> 0, tbt |-> 0,
   dcl |-> 0, load |-> 0, tti |-> 0, resources |-> <<>>,
   interactionCount |-> 0, totalJSHeapSize |-> 0, usedJSHeapSize |-> 0,
   resourceCount |-> Undefined]

\* The host's navigation timing record and heap figures (fixed inputs).
NavEntry ==
  [domContentLoadedEventStart |-> 30, loadEventStart |-> 40,
   responseStart |-> 10, domInteractive |-> 20]
HostMemory == [totalJSHeapSize |-> 2000, usedJSHeapSize |-> 1000]

Hosts ==
  {[perf |-> TRUE, unsupported |-> U] :
     U \in {X \in SUBSET Sources : Cardinality(X) <= MaxUnsupported}}
  \cup {[perf |-> FALSE, unsupported |-> {}]}

\* ------------------------------------------------------- AnalyticsTracker
\* crypto.randomUUID() / Math.random(): an identifier not held in `used`.
FreshId(used) == CHOOSE i \in 1..(Cardinality(used) + 1) :
                   i \notin used /\ \A j \in 1..(i - 1) : j \in used

getOrCreateClientId(st, F) ==
  LET id == FreshId({st.ci}) IN
  IF "getCI" \in F THEN [clientId |-> id, storage |-> st]
  ELSE IF st.ci # 0 THEN [clientId |-> st.ci, storage |-> st]
  ELSE IF "setCI" \in F THEN [clientId |-> id, storage |-> st]
  ELSE [clientId |-> id, storage |-> [st EXCEPT !.ci = id]]

generateSessionId(st) == FreshId({st.si})

\* Variant: the expiration instant itself still counts as valid.
isSessionExpiredStrict(t, expirationTime) ==
  LET e == ParseInt(expirationTime) IN IF e = NaN THEN FALSE ELSE t > e

isSessionExpired(t, expirationTime) ==
  LET e == ParseInt(expirationTime) IN IF e = NaN THEN FALSE ELSE t >= e

\* The payload of one beacon, projected on the fields that identify it.
Payload(ctx, eventName, eventData) ==
  [event |-> eventName, pathname |-> ctx.pathname, clientId |-> ctx.clientId,
   sessionId |-> ctx.session.sessionId, pageLoadId |-> ctx.pageLoadId,
   eventData |-> eventData]

sendAnalyticsRequest(o, payload) ==
  [o EXCEPT !.beacons = Append(@, payload)]

\* Variant: no destroyed check at the entry of trackEvent.
trackEventUnguarded(o, ctx, eventName, eventData) ==
  IF ctx.session.sessionId = 0
    THEN [o EXCEPT !.pending =
            Append(@, [event |-> eventName, eventData |-> eventData])]
    ELSE sendAnalyticsRequest(o, Payload(ctx, eventName, eventData))

\* trackEvent up to its first suspension: returns at once when destroyed,
\* parks the call on the grace timer when the session is unset, and
\* otherwise composes and sends synchronously.
trackEvent(o, ctx, eventName, eventData) ==
  IF ctx.isDestroyed THEN o
  ELSE IF ctx.session.sessionId = 0
    THEN [o EXCEPT !.pending =
            Append(@, [event |-> eventName, eventData |-> eventData])]
    ELSE sendAnalyticsRequest(o, Payload(ctx, eventName, eventData))

\* Variant: the call is sent after the wait whatever the session is.
trackEventAfterWaitSend(o, ctx, call) ==
  sendAnalyticsRequest(o, Payload(ctx, call.event, call.eventData))

\* trackEvent after the grace timer: only the session is looked at again.
trackEventAfterWait(o, ctx, call) ==
  IF ctx.session.sessionId = 0 THEN o
  ELSE sendAnalyticsRequest(o, Payload(ctx, call.event, call.eventData))

trackPageView(o, ctx) ==
  IF ctx.isDestroyed THEN o ELSE trackEvent(o, ctx, "page-view", NoData)

RECURSIVE FlushQueue(_, _, _, _)
FlushQueue(o, ctx, eventType, q) ==
  IF q = <<>> THEN o
  ELSE FlushQueue(trackEvent(o, ctx, eventType, CustomData(Head(q))),
                  ctx, eventType, Tail(q))

RECURSIVE Reverse(_)
Reverse(q) == IF q = <<>> THEN <<>> ELSE Append(Reverse(Tail(q)), Head(q))

\* Variant: the queue is drained from its newest entry.
initializeLynqReversed(o, ctx, eventType, q) ==
  FlushQueue(o, ctx, eventType, Reverse(q))

initializeLynq(o, ctx, eventType, q) == FlushQueue(o, ctx, eventType, q)

initializeSession(st, F, t, ctx, q, o) ==
  LET id == generateSessionId(st)
      failed(s) ==
        [storage |-> s, session |-> NoSession, armed |-> FALSE, out |-> o,
         lynq |-> FALSE, queue |-> q, outcome |-> "failed"]
  IN
  IF {"getSI", "getSE"} \cap F # {} THEN failed(st)
  ELSE IF st.si = 0 \/ st.se = <<>> \/ isSessionExpired(t, st.se) THEN
    IF "setSI" \in F THEN failed(st)
    ELSE IF "setSE" \in F THEN failed([st EXCEPT !.si = id])
    ELSE
      LET newExpirationTime == t + SESSION_DURATION
          s == [sessionId |-> id, expirationTime |-> newExpirationTime,
                startTime |-> t]
          c == [ctx EXCEPT !.session = s]
          o1 == trackEvent(o, c, "session-start", NoData)
      IN [storage |-> [st EXCEPT !.si = id,
                                 !.se = StringOf(newExpirationTime)],
          session |-> s, armed |-> TRUE,
          out |-> initializeLynq(o1, c, "initial-custom-event", q),
          lynq |-> TRUE, queue |-> <<>>, outcome |-> "new"]
  ELSE
    LET s == [sessionId |-> st.si, expirationTime |-> ParseInt(st.se),
              startTime |-> t]
        c == [ctx EXCEPT !.session = s]
        o1 == trackPageView(o, c)
    IN [storage |-> st, session |-> s, armed |-> TRUE,
        out |-> initializeLynq(o1, c, "custom-event", q),
        lynq |-> TRUE, queue |-> <<>>, outcome |-> "resumed"]

\* ----------------------------------------------------- PerformanceTracker
collectNavigationMetrics(m, h) ==
  IF "navigation" \in h.unsupported THEN m
  ELSE [m EXCEPT !.dcl = NavEntry.domContentLoadedEventStart,
                 !.load = NavEntry.loadEventStart,
                 !.ttfb = NavEntry.responseStart,
                 !.tti = NavEntry.domInteractive]

\* createObserver: an observer function that throws is caught per observer;
\* only observeLCP returns its observer, so only "lcp" enters the map.
setupPerformanceObservers(h) ==
  [subscribed |-> ObserverNames \ h.unsupported,
   observers |-> {"lcp"} \ h.unsupported]

initializeTracking(h, ready) ==
  IF ~h.perf THEN
    [observers |-> {}, subscribed |-> {}, resourceObserver |-> FALSE,
     navListener |-> FALSE, visibilityTracking |-> FALSE,
     metrics |-> InitialMetrics]
  ELSE
    LET po == setupPerformanceObservers(h)
        m == IF ready THEN collectNavigationMetrics(InitialMetrics, h)
             ELSE InitialMetrics
        resourceOk == "resource" \notin h.unsupported
    IN [observers |-> po.observers,
        subscribed |-> po.subscribed \cup
                         (IF resourceOk THEN {"resource"} ELSE {}),
        resourceObserver |-> TRUE,
        navListener |-> ~ready,
        visibilityTracking |-> resourceOk,
        metrics |-> m]

collectPerformanceMetrics(m, seen) ==
  [m EXCEPT !.totalJSHeapSize = HostMemory.totalJSHeapSize,
            !.usedJSHeapSize = HostMemory.usedJSHeapSize,
            !.resourceCount = seen]

\* sendFinalMetrics on r = [sent, metrics, out].
sendFinalMetrics(r, ctx, seen) ==
  IF r.sent THEN r
  ELSE LET m == collectPerformanceMetrics(r.metrics, seen)
       IN [sent |-> TRUE, metrics |-> m,
           out |-> trackEvent(r.out, ctx, "web-vitals",
                              [kind |-> "metrics", m |-> m])]

RECURSIVE observePaint(_, _)
observePaint(m, entries) ==
  IF entries = <<>> THEN m
  ELSE observePaint(
         IF Head(entries).name = "first-contentful-paint"
           THEN [m EXCEPT !.fcp = Head(entries).startTime] ELSE m,
         Tail(entries))

RECURSIVE observeLCP(_, _)
observeLCP(m, entries) ==
  IF entries = <<>> THEN m
  ELSE observeLCP(
         IF Head(entries).startTime > m.lcp
           THEN [m EXCEPT !.lcp = Head(entries).startTime] ELSE m,
         Tail(entries))

RECURSIVE SessionGapFold(_, _)
SessionGapFold(acc, entries) ==
  IF entries = <<>> THEN acc
  ELSE LET entry == Head(entries) IN
    SessionGapFold(
      IF acc.session = <<>>
           \/ entry.startTime - acc.sessionStart < SessionGapMs
        THEN [acc EXCEPT !.session = Append(@, entry)]
        ELSE [maxSessionValue |->
                Max(acc.maxSessionValue, SumValues(acc.session)),
              session |-> <<entry>>,
              sessionStart |-> entry.startTime],
      Tail(entries))

calculateMaxSessionGap(entries) ==
  LET acc == SessionGapFold(
               [maxSessionValue |-> 0, session |-> <<>>, sessionStart |-> 0],
               entries)
  IN Max(acc.maxSessionValue, SumValues(acc.session))

\* observeCLS on r = [entries, cls]: updateCLS for every entry without
\* recent input.
RECURSIVE observeCLS(_, _)
observeCLS(r, entries) ==
  IF entries = <<>> THEN r
  ELSE observeCLS(
         IF ~Head(entries).hadRecentInput
           THEN LET updatedEntries == Append(r.entries, Head(entries))
                IN [entries |-> updatedEntries,
                    cls |-> calculateMaxSessionGap(updatedEntries)]
           ELSE r,
         Tail(entries))

RECURSIVE Insert(_, _)
Insert(x, s) ==
  IF s = <<>> THEN <<x>>
  ELSE IF x <= Head(s) THEN <<x>> \o s ELSE <<Head(s)>> \o Insert(x, Tail(s))

RECURSIVE SortAscending(_)
SortAscending(s) ==
  IF s = <<>> THEN <<>> ELSE Insert(Head(s), SortAscending(Tail(s)))

\* Variant: the estimate is the largest duration of the history.
observeINPMaximum(r, durations) ==
  LET times == r.times \o durations
      sortedTimes == SortAscending(times)
      idx == Len(sortedTimes) - 1
  IN [times |-> times,
      count |-> r.count + Len(durations),
      inp |-> IF Len(times) > 0 THEN sortedTimes[idx + 1] ELSE r.inp]

\* observeINP on r = [times, inp, count]; durations is one batch.
observeINP(r, durations) ==
  LET times == r.times \o durations
      sortedTimes == SortAscending(times)
      idx == (Len(sortedTimes) * 3) \div 4
  IN [times |-> times,
      count |-> r.count + Len(durations),
      inp |-> IF Len(times) > 0 THEN sortedTimes[idx + 1] ELSE r.inp]

\* Variant: the whole duration of a long task counts as blocking.
RECURSIVE observeLongTasksWhole(_, _)
observeLongTasksWhole(r, durations) ==
  IF durations = <<>> THEN r
  ELSE LET blockingTime == Head(durations) IN
    observeLongTasksWhole(
      IF blockingTime > 0
        THEN [total |-> r.total + blockingTime, tbt |-> r.total + blockingTime]
        ELSE r,
      Tail(durations))

\* observeLongTasks on r = [total, tbt].
RECURSIVE observeLongTasks(_, _)
observeLongTasks(r, durations) ==
  IF durations = <<>> THEN r
  ELSE LET blockingTime == Head(durations) - LongTaskBudgetMs IN
    observeLongTasks(
      IF blockingTime > 0
        THEN [total |-> r.total + blockingTime, tbt |-> r.total + blockingTime]
        ELSE r,
      Tail(durations))

RECURSIVE observeResources(_, _)
observeResources(m, entries) ==
  IF entries = <<>> THEN m
  ELSE observeResources(
         IF Head(entries).transferSize > 0
              /\ Head(entries).duration > SlowResourceMs
           THEN [m EXCEPT !.resources = Append(@, Head(entries))] ELSE m,
         Tail(entries))


VARIABLES
  host, now, visible, readyComplete, pathname, storage, lynqQueue, lynqDefined,
  phase,
  clientId, initialPathname, session, isDestroyed, sessionInterval, timerDue,
  pageLoadId,
  observers, subscribed, resourceObserver, navListener, visibilityTracking,
  metrics, sessionEntries, interactionTimes, totalBlockingTime,
  finalMetricsSent, hostResources, signals, delivered,
  pending, beacons, thrown, lastOp,
  peer

envVars == <<host, now, visible, readyComplete, pathname, storage, lynqQueue,
             lynqDefined, phase>>
trackerVars == <<clientId, initialPathname, session, isDestroyed,
                 sessionInterval, timerDue, pageLoadId>>
perfVars == <<observers, subscribed, resourceObserver, navListener,
              visibilityTracking, metrics, sessionEntries, interactionTimes,
              totalBlockingTime, finalMetricsSent, hostResources, signals,
              delivered>>
outVars == <<pending, beacons, thrown, lastOp>>
vars == <<envVars, trackerVars, perfVars, outVars, peer>>

\* ----------------------------------------------------------------- state
InMemoryReset ==
  /\ clientId' = 0 /\ initialPathname' = "/" /\ session' = NoSession
  /\ isDestroyed' = FALSE /\ sessionInterval' = FALSE /\ timerDue' = 0
  /\ pageLoadId' = 0
  /\ observers' = {} /\ subscribed' = {} /\ resourceObserver' = FALSE
  /\ navListener' = FALSE /\ visibilityTracking' = FALSE
  /\ metrics' = InitialMetrics /\ sessionEntries' = <<>>
  /\ interactionTimes' = <<>> /\ totalBlockingTime' = 0
  /\ finalMetricsSent' = FALSE /\ hostResources' = 0 /\ signals' = 0
  /\ delivered' = NothingDelivered
  /\ pending' = <<>> /\ beacons' = <<>> /\ thrown' = {}

Init ==
  /\ host \in Hosts
  /\ now = 0 /\ visible = TRUE /\ readyComplete = FALSE /\ pathname = "/"
  /\ storage = [si |-> 0, se |-> <<>>, ci |-> 0]
  /\ lynqQueue = <<>> /\ lynqDefined = FALSE
  /\ phase = "preinit"
  /\ clientId = 0 /\ initialPathname = "/" /\ session = NoSession
  /\ isDestroyed = FALSE /\ sessionInterval = FALSE /\ timerDue = 0
  /\ pageLoadId = 0
  /\ observers = {} /\ subscribed = {} /\ resourceObserver = FALSE
  /\ navListener = FALSE /\ visibilityTracking = FALSE
  /\ metrics = InitialMetrics /\ sessionEntries = <<>>
  /\ interactionTimes = <<>> /\ totalBlockingTime = 0
  /\ finalMetricsSent = FALSE /\ hostResources = 0 /\ signals = 0
  /\ delivered = NothingDelivered
  /\ pending = <<>> /\ beacons = <<>> /\ thrown = {}
  /\ lastOp = "none"
  /\ peer = NoPeer

Ctx ==
  [isDestroyed |-> isDestroyed, session |-> session, clientId |-> clientId,
   pageLoadId |-> pageLoadId, pathname |-> pathname]
Out == [beacons |-> beacons, pending |-> pending]
Live == phase = "live"
Room(k) == Len(beacons) + k <= MaxBeacons /\ Len(pending) < MaxPending

\* ------------------------------------------------------------ environment
\* The clock advances by one refresh period.
Tick ==
  /\ now < MaxTicks * TickMs
  /\ now' = now + TickMs
  /\ lastOp' = "tick"
  /\ UNCHANGED <<host, visible, readyComplete, pathname, storage, lynqQueue,
                 lynqDefined, phase, trackerVars, perfVars,
                 pending, beacons, thrown>>
  /\ UNCHANGED peer

\* The pre-init stub: track() before the tracker is ready buffers its
\* argument in window.lynqQueue.
Enqueue(d) ==
  /\ ~lynqDefined
  /\ Len(lynqQueue) < MaxQueue
  /\ lynqQueue' = Append(lynqQueue, d)
  /\ lastOp' = "enqueue"
  /\ UNCHANGED <<host, now, visible, readyComplete, pathname, storage,
                 lynqDefined, phase, trackerVars, perfVars,
                 pending, beacons, thrown>>
  /\ UNCHANGED peer

\* A new load of the page: a fresh window, the same localStorage.
Reload ==
  /\ Live
  /\ phase' = "preinit"
  /\ visible' = TRUE /\ readyComplete' = FALSE /\ pathname' = "/"
  /\ lynqQueue' = <<>> /\ lynqDefined' = FALSE
  /\ InMemoryReset
  /\ lastOp' = "reload"
  /\ UNCHANGED <<host, now, storage>>
  /\ UNCHANGED peer

\* new AnalyticsTracker(): the whole constructor, with F the localStorage
\* calls that throw during it.
Construct(F) ==
  /\ phase = "preinit"
  /\ LET cid == getOrCreateClientId(storage, F)
         ctx0 == [isDestroyed |-> FALSE, session |-> NoSession,
                  clientId |-> cid.clientId, pageLoadId |-> 0,
                  pathname |-> pathname]
         is == initializeSession(cid.storage, F, now, ctx0,
                                 lynqQueue, [beacons |-> <<>>, pending |-> <<>>])
         pt == initializeTracking(host, readyComplete)
     IN /\ clientId' = cid.clientId
        /\ initialPathname' = pathname
        /\ session' = is.session
        /\ isDestroyed' = FALSE
        /\ storage' = is.storage
        /\ sessionInterval' = is.armed
        /\ timerDue' = IF is.armed THEN now + RefreshPeriod ELSE 0
        /\ beacons' = is.out.beacons
        /\ pending' = is.out.pending
        /\ lynqQueue' = is.queue
        /\ lynqDefined' = is.lynq
        /\ observers' = pt.observers
        /\ subscribed' = pt.subscribed
        /\ resourceObserver' = pt.resourceObserver
        /\ navListener' = pt.navListener
        /\ visibilityTracking' = pt.visibilityTracking
        /\ metrics' = pt.metrics
        /\ lastOp' = is.outcome
  /\ pageLoadId' = 1
  /\ phase' = "live"
  /\ UNCHANGED <<host, now, visible, readyComplete, pathname,
                 sessionEntries, interactionTimes, totalBlockingTime,
                 finalMetricsSent, hostResources, signals, delivered, thrown>>
  /\ UNCHANGED peer

\* ---------------------------------------------------------------- session
\* Variant: the in-memory expiration is set before the write is attempted.
refreshSessionEager(fail) ==
  IF visible /\ ~isDestroyed THEN
    /\ session' = [session EXCEPT !.expirationTime = now + SESSION_DURATION]
    /\ IF fail THEN storage' = storage /\ lastOp' = "refresh-failed"
       ELSE /\ storage' =
                 [storage EXCEPT !.se = StringOf(now + SESSION_DURATION)]
            /\ lastOp' = "refresh-ok"
  ELSE
    /\ UNCHANGED <<storage, session>>
    /\ lastOp' = "refresh-skipped"

\* Variant: the visibility of the page is not looked at.
refreshSessionAlways(fail) ==
  IF fail THEN
    /\ UNCHANGED <<storage, session>>
    /\ lastOp' = "refresh-failed"
  ELSE
    /\ storage' = [storage EXCEPT !.se = StringOf(now + SESSION_DURATION)]
    /\ session' = [session EXCEPT !.expirationTime = now + SESSION_DURATION]
    /\ lastOp' = IF visible /\ ~isDestroyed THEN "refresh-ok"
                 ELSE "refresh-skipped"

\* Variant: the new expiration is persisted but not kept in memory.
refreshSessionPersistOnly(fail) ==
  IF visible /\ ~isDestroyed THEN
    IF fail THEN
      /\ UNCHANGED <<storage, session>>
      /\ lastOp' = "refresh-failed"
    ELSE
      /\ storage' = [storage EXCEPT !.se = StringOf(now + SESSION_DURATION)]
      /\ session' = session
      /\ lastOp' = "refresh-ok"
  ELSE
    /\ UNCHANGED <<storage, session>>
    /\ lastOp' = "refresh-skipped"

\* One firing of the refresh interval; fail: localStorage.setItem throws.
refreshSession(fail) ==
  IF visible /\ ~isDestroyed THEN
    IF fail THEN
      /\ UNCHANGED <<storage, session>>
      /\ lastOp' = "refresh-failed"
    ELSE
      /\ storage' = [storage EXCEPT !.se = StringOf(now + SESSION_DURATION)]
      /\ session' = [session EXCEPT !.expirationTime = now + SESSION_DURATION]
      /\ lastOp' = "refresh-ok"
  ELSE
    /\ UNCHANGED <<storage, session>>
    /\ lastOp' = "refresh-skipped"

RefreshTick(fail) ==
  /\ Live
  /\ sessionInterval
  /\ now >= timerDue
  /\ refreshSession(fail)
  /\ timerDue' = timerDue + RefreshPeriod
  /\ UNCHANGED <<host, now, visible, readyComplete, pathname, lynqQueue,
                 lynqDefined, phase, clientId, initialPathname,
                 isDestroyed, sessionInterval, pageLoadId, perfVars, pending,
                 beacons, thrown>>
  /\ UNCHANGED peer

\* ----------------------------------------------------------------- events
\* window.your_tracking(...) or window.lynq.track(...): a direct trackEvent.
Track(d) ==
  /\ Live
  /\ Room(1)
  /\ LET o == trackEvent(Out, Ctx, "custom-event", CustomData(d))
     IN beacons' = o.beacons /\ pending' = o.pending
  /\ lastOp' = "track"
  /\ UNCHANGED <<envVars, trackerVars, perfVars, thrown>>
  /\ UNCHANGED peer

\* The grace timer of the oldest suspended trackEvent call fires.
ResumeTrackEvent ==
  /\ Live
  /\ pending # <<>>
  /\ LET o == trackEventAfterWait([beacons |-> beacons,
                                   pending |-> Tail(pending)],
                                  Ctx, Head(pending))
     IN beacons' = o.beacons /\ pending' = o.pending
  /\ lastOp' = "resume"
  /\ UNCHANGED <<envVars, trackerVars, perfVars, thrown>>
  /\ UNCHANGED peer

\* The pathname changes and the MutationObserver callback runs.
PathnameChange(p) ==
  /\ Live
  /\ Room(1)
  /\ p # pathname
  /\ pathname' = p
  /\ LET c == [Ctx EXCEPT !.pathname = p]
         fires == ~isDestroyed /\ p # initialPathname
         o == IF fires THEN trackPageView(Out, c) ELSE Out
     IN /\ beacons' = o.beacons /\ pending' = o.pending
        /\ initialPathname' = IF fires THEN p ELSE initialPathname
  /\ lastOp' = "pathname"
  /\ UNCHANGED <<host, now, visible, readyComplete, storage, lynqQueue,
                 lynqDefined, phase, clientId, session,
                 isDestroyed, sessionInterval, timerDue, pageLoadId, perfVars,
                 thrown>>
  /\ UNCHANGED peer

\* hashchange: the listener is the unbound trackPageView, so `this` is the
\* window and this.trackEvent is not a function.  The listener is removed
\* by destroy().
HashChange ==
  /\ Live
  /\ ~isDestroyed
  /\ thrown' = thrown \cup {"hashchange"}
  /\ lastOp' = "hashchange"
  /\ UNCHANGED <<envVars, trackerVars, perfVars, pending, beacons>>
  /\ UNCHANGED peer

PageVisible ==
  /\ Live
  /\ ~visible
  /\ visible' = TRUE
  /\ lastOp' = "visible"
  /\ UNCHANGED <<host, now, readyComplete, pathname, storage, lynqQueue,
                 lynqDefined, phase, trackerVars, perfVars,
                 pending, beacons, thrown>>
  /\ UNCHANGED peer

\* visibilitychange to hidden.
PageHidden ==
  /\ Live
  /\ visible
  /\ Room(1)
  /\ visible' = FALSE
  /\ LET r0 == [sent |-> finalMetricsSent, metrics |-> metrics, out |-> Out]
         r == IF visibilityTracking
                THEN sendFinalMetrics(r0, Ctx, hostResources) ELSE r0
     IN /\ finalMetricsSent' = r.sent /\ metrics' = r.metrics
        /\ beacons' = r.out.beacons /\ pending' = r.out.pending
  /\ lastOp' = "hidden"
  /\ UNCHANGED <<host, now, readyComplete, pathname, storage, lynqQueue,
                 lynqDefined, phase, trackerVars, observers,
                 subscribed, resourceObserver, navListener, visibilityTracking,
                 sessionEntries, interactionTimes, totalBlockingTime,
                 hostResources, signals, delivered, thrown>>
  /\ UNCHANGED peer

\* beforeunload: the PerformanceTracker listener, then the AnalyticsTracker
\* listener, whose argument reads this.session.startTime.
PageUnload ==
  /\ Live
  /\ Room(2)
  /\ LET r0 == [sent |-> finalMetricsSent, metrics |-> metrics, out |-> Out]
         r == IF visibilityTracking
                THEN sendFinalMetrics(r0, Ctx, hostResources) ELSE r0
         throws == session = NoSession
         o == IF throws THEN r.out
              ELSE trackEvent(r.out, Ctx, "session-end",
                     [kind |-> "end",
                      sessionDuration |-> now - session.startTime])
     IN /\ finalMetricsSent' = r.sent /\ metrics' = r.metrics
        /\ beacons' = o.beacons /\ pending' = o.pending
        /\ thrown' = IF throws THEN thrown \cup {"beforeunload"} ELSE thrown
  /\ lastOp' = "unload"
  /\ UNCHANGED <<envVars, trackerVars, observers, subscribed,
                 resourceObserver, navListener, visibilityTracking,
                 sessionEntries, interactionTimes, totalBlockingTime,
                 hostResources, signals, delivered>>
  /\ UNCHANGED peer

\* destroy(): the flag first, then the interval, the listeners and the
\* observers, then PerformanceTracker.destroy() with its final flush.
Destroy ==
  /\ Live
  /\ isDestroyed' = TRUE
  /\ sessionInterval' = FALSE
  /\ LET c == [Ctx EXCEPT !.isDestroyed = TRUE]
         r == sendFinalMetrics(
                [sent |-> finalMetricsSent, metrics |-> metrics, out |-> Out],
                c, hostResources)
     IN /\ finalMetricsSent' = r.sent /\ metrics' = r.metrics
        /\ beacons' = r.out.beacons /\ pending' = r.out.pending
  /\ subscribed' = (subscribed \ observers) \ {"resource"}
  /\ observers' = {}
  /\ lastOp' = "destroy"
  /\ UNCHANGED <<envVars, clientId, initialPathname, session, timerDue,
                 pageLoadId, resourceObserver, navListener, visibilityTracking,
                 sessionEntries, interactionTimes, totalBlockingTime,
                 hostResources, signals, delivered, thrown>>
  /\ UNCHANGED peer

\* ---------------------------------------------------- performance signals
ReadyStateComplete ==
  /\ Live
  /\ ~readyComplete
  /\ readyComplete' = TRUE
  /\ metrics' = IF navListener THEN collectNavigationMetrics(metrics, host)
                ELSE metrics
  /\ lastOp' = "readystate"
  /\ UNCHANGED <<host, now, visible, pathname, storage, lynqQueue, lynqDefined,
                 phase, trackerVars, observers, subscribed,
                 resourceObserver, navListener, visibilityTracking,
                 sessionEntries, interactionTimes, totalBlockingTime,
                 finalMetricsSent, hostResources, signals, delivered, pending,
                 beacons, thrown>>
  /\ UNCHANGED peer

SignalFrame ==
  /\ signals' = signals + 1
  /\ UNCHANGED <<envVars, trackerVars, observers, subscribed, resourceObserver,
                 navListener, visibilityTracking, finalMetricsSent, pending,
                 beacons, thrown>>
  /\ UNCHANGED peer

PaintCallback(entries) ==
  /\ Live /\ "paint" \in subscribed
  /\ metrics' = observePaint(metrics, entries)
  /\ lastOp' = "paint"
  /\ SignalFrame /\ UNCHANGED delivered
  /\ UNCHANGED <<sessionEntries, interactionTimes, totalBlockingTime,
                 hostResources>>

LCPCallback(entries) ==
  /\ Live /\ "lcp" \in subscribed
  /\ metrics' = observeLCP(metrics, entries)
  /\ lastOp' = "lcp"
  /\ SignalFrame /\ UNCHANGED delivered
  /\ UNCHANGED <<sessionEntries, interactionTimes, totalBlockingTime,
                 hostResources>>

CLSCallback(entries) ==
  /\ Live /\ "cls" \in subscribed
  /\ LET r == observeCLS([entries |-> sessionEntries, cls |-> metrics.cls],
                         entries)
     IN /\ sessionEntries' = r.entries
        /\ metrics' = [metrics EXCEPT !.cls = r.cls]
  /\ lastOp' = "cls"
  /\ SignalFrame /\ UNCHANGED delivered
  /\ UNCHANGED <<interactionTimes, totalBlockingTime, hostResources>>

INPCallback(durations) ==
  /\ Live /\ "inp" \in subscribed
  /\ LET r == observeINP([times |-> interactionTimes, inp |-> metrics.inp,
                          count |-> metrics.interactionCount], durations)
     IN /\ interactionTimes' = r.times
        /\ metrics' = [metrics EXCEPT !.inp = r.inp,
                                      !.interactionCount = r.count]
  /\ lastOp' = "inp"
  /\ SignalFrame
  /\ delivered' = [delivered EXCEPT !.inp = @ \o durations]
  /\ UNCHANGED <<sessionEntries, totalBlockingTime, hostResources>>

LongTaskCallback(durations) ==
  /\ Live /\ "longtasks" \in subscribed
  /\ LET r == observeLongTasks([total |-> totalBlockingTime,
                                tbt |-> metrics.tbt], durations)
     IN /\ totalBlockingTime' = r.total
        /\ metrics' = [metrics EXCEPT !.tbt = r.tbt]
  /\ lastOp' = "longtask"
  /\ SignalFrame
  /\ delivered' = [delivered EXCEPT !.longtasks = @ \o durations]
  /\ UNCHANGED <<sessionEntries, interactionTimes, hostResources>>

ResourceCallback(entries) ==
  /\ Live /\ "resource" \in subscribed
  /\ metrics' = observeResources(metrics, entries)
  /\ hostResources' = hostResources + Len(entries)
  /\ lastOp' = "resource"
  /\ SignalFrame /\ UNCHANGED delivered
  /\ UNCHANGED <<sessionEntries, interactionTimes, totalBlockingTime>>

\* ---------------------------------------------------------- signal inputs
PaintEntries ==
  {[name |-> "first-paint", startTime |-> 80],
   [name |-> "first-contentful-paint", startTime |-> 120]}
LCPEntries == {[startTime |-> 200]}
ShiftProbe ==
  {[startTime |-> 5000, value |-> 10, hadRecentInput |-> FALSE]}
ShiftTimes == {0, 500, 1001, 5000, 5500}
ShiftEntries ==
  [startTime : ShiftTimes, value : {5, 10}, hadRecentInput : BOOLEAN]
InteractionDurations == {40}
LongTaskDurations == {80}
ResourceEntries ==
  {[name |-> "app.js", initiatorType |-> "script", duration |-> 150,
    transferSize |-> 900, startTime |-> 60, nextHopProtocol |-> "h2"]}

Signal ==
  /\ signals < MaxSignals
  /\ \/ \E e \in PaintEntries : PaintCallback(<<e>>)
     \/ \E e \in LCPEntries : LCPCallback(<<e>>)
     \/ \E e \in ShiftProbe : CLSCallback(<<e>>)
     \/ \E d \in InteractionDurations : INPCallback(<<d>>)
     \/ \E d \in LongTaskDurations : LongTaskCallback(<<d>>)
     \/ \E e \in ResourceEntries : ResourceCallback(<<e>>)

Next ==
  \/ Tick
  \/ \E d \in Data : Enqueue(d)
  \/ Reload
  \/ \E F \in SUBSET StorageCalls : Construct(F)
  \/ \E fail \in BOOLEAN : RefreshTick(fail)
  \/ \E d \in Data : Track(d)
  \/ ResumeTrackEvent
  \/ \E p \in Paths : PathnameChange(p)
  \/ HashChange
  \/ PageVisible
  \/ PageHidden
  \/ PageUnload
  \/ Destroy
  \/ ReadyStateComplete
  \/ Signal

Spec == Init /\ [][Next]_vars

\* ------------------------------------------------- the session over time
FullHost == [perf |-> TRUE, unsupported |-> {}]

InitSession == Init /\ host = FullHost

NextSession ==
  \/ Tick
  \/ \E d \in Data : Enqueue(d)
  \/ Reload
  \/ \E F \in SUBSET StorageCalls : Construct(F)
  \/ \E fail \in BOOLEAN : RefreshTick(fail)
  \/ \E d \in Data : Track(d)
  \/ ResumeTrackEvent
  \/ PageVisible
  \/ PageHidden
  \/ Destroy

SpecSession == InitSession /\ [][NextSession]_vars

\* ------------------------------------------- one page load, every event
\* What an earlier load at the same instant leaves in localStorage.
PersistedAtLoad ==
  {[si |-> 0, se |-> <<>>, ci |-> 0],
   [si |-> 1, se |-> StringOf(SESSION_DURATION), ci |-> 1]}

InitPage ==
  /\ host = FullHost
  /\ now = 0 /\ visible = TRUE /\ readyComplete = FALSE /\ pathname = "/"
  /\ storage \in PersistedAtLoad
  /\ lynqQueue = <<>> /\ lynqDefined = FALSE
  /\ phase = "preinit"
  /\ clientId = 0 /\ initialPathname = "/" /\ session = NoSession
  /\ isDestroyed = FALSE /\ sessionInterval = FALSE /\ timerDue = 0
  /\ pageLoadId = 0
  /\ observers = {} /\ subscribed = {} /\ resourceObserver = FALSE
  /\ navListener = FALSE /\ visibilityTracking = FALSE
  /\ metrics = InitialMetrics /\ sessionEntries = <<>>
  /\ interactionTimes = <<>> /\ totalBlockingTime = 0
  /\ finalMetricsSent = FALSE /\ hostResources = 0 /\ signals = 0
  /\ delivered = NothingDelivered
  /\ pending = <<>> /\ beacons = <<>> /\ thrown = {}
  /\ lastOp = "none"
  /\ peer = NoPeer

NextPage ==
  \/ \E F \in SUBSET StorageCalls : Construct(F)
  \/ \E d \in Data : Track(d)
  \/ ResumeTrackEvent
  \/ \E p \in Paths : PathnameChange(p)
  \/ HashChange
  \/ PageVisible
  \/ PageHidden
  \/ PageUnload
  \/ Destroy
  \/ Signal

SpecPage == InitPage /\ [][NextPage]_vars

\* ------------------------------------- every host, the signals, the flush
InitSignals ==
  /\ host \in Hosts
  /\ now = 0 /\ visible = TRUE /\ readyComplete \in BOOLEAN /\ pathname = "/"
  /\ storage \in PersistedAtLoad
  /\ lynqQueue = <<>> /\ lynqDefined = FALSE
  /\ phase = "preinit"
  /\ clientId = 0 /\ initialPathname = "/" /\ session = NoSession
  /\ isDestroyed = FALSE /\ sessionInterval = FALSE /\ timerDue = 0
  /\ pageLoadId = 0
  /\ observers = {} /\ subscribed = {} /\ resourceObserver = FALSE
  /\ navListener = FALSE /\ visibilityTracking = FALSE
  /\ metrics = InitialMetrics /\ sessionEntries = <<>>
  /\ interactionTimes = <<>> /\ totalBlockingTime = 0
  /\ finalMetricsSent = FALSE /\ hostResources = 0 /\ signals = 0
  /\ delivered = NothingDelivered
  /\ pending = <<>> /\ beacons = <<>> /\ thrown = {}
  /\ lastOp = "none"
  /\ peer = NoPeer

NextSignals ==
  \/ \E F \in SUBSET StorageCalls : Construct(F)
  \/ ReadyStateComplete
  \/ Signal
  \/ PageVisible
  \/ PageHidden
  \/ PageUnload
  \/ Destroy

SpecSignals == InitSignals /\ [][NextSignals]_vars

\* ------------------------------------------------- layout-shift grouping
\* Batches of layout-shift entries in the order the host reports them:
\* start times never decrease, within a batch and across batches.
RECURSIVE InTimeOrder(_, _)
InTimeOrder(last, entries) ==
  IF entries = <<>> THEN TRUE
  ELSE /\ Head(entries).startTime >= last
       /\ InTimeOrder(Head(entries).startTime, Tail(entries))

LastShiftTime ==
  IF sessionEntries = <<>> THEN 0
  ELSE sessionEntries[Len(sessionEntries)].startTime

NextCLS ==
  \/ Construct({})
  \/ /\ signals < MaxShifts
     /\ \E batch \in SeqsUpTo(ShiftEntries, MaxBatch) :
          /\ Len(sessionEntries) + Len(batch) <= MaxShifts
          /\ InTimeOrder(LastShiftTime, batch)
          /\ CLSCallback(batch)

InitCLS == InitPage /\ storage.si = 0

SpecCLS == InitCLS /\ [][NextCLS]_vars

\* ------------------------------------- interaction and long-task batches
InteractionBatchDurations == {20, 40, 90}
LongTaskBatchDurations == {30, 80}

NextVitals ==
  \/ Construct({})
  \/ \E batch \in SeqsUpTo(InteractionBatchDurations, MaxBatch) :
       /\ Len(interactionTimes) + Len(batch) <= MaxInteractions
       /\ INPCallback(batch)
  \/ \E batch \in SeqsUpTo(LongTaskBatchDurations, MaxBatch) :
       /\ Len(delivered.longtasks) + Len(batch) <= MaxLongTasks
       /\ LongTaskCallback(batch)

SpecVitals == InitCLS /\ [][NextVitals]_vars

\* ------------------------------------------- interval timers fire on time
TimelyStepMs == RefreshPeriod \div 2

\* The clock advances by half a refresh period, never past an armed
\* refresh interval that is due: setInterval callbacks run on time.
TimelyTick ==
  /\ now < MaxTimelySteps * TimelyStepMs
  /\ (Live /\ sessionInterval) => now + TimelyStepMs <= timerDue
  /\ peer.sessionInterval => now + TimelyStepMs <= peer.timerDue
  /\ now' = now + TimelyStepMs
  /\ lastOp' = "tick"
  /\ UNCHANGED <<host, visible, readyComplete, pathname, storage, lynqQueue,
                 lynqDefined, phase, trackerVars, perfVars,
                 pending, beacons, thrown>>
  /\ UNCHANGED peer

NextTimely ==
  \/ TimelyTick
  \/ Reload
  \/ Construct({})
  \/ RefreshTick(FALSE)
  \/ \E d \in Data : Track(d)
  \/ PageVisible
  \/ PageHidden

SpecTimely == InitSession /\ [][NextTimely]_vars

\* The page is never hidden, the tracker never destroyed, every write
\* succeeds.
NextForeground ==
  \/ TimelyTick
  \/ Reload
  \/ Construct({})
  \/ RefreshTick(FALSE)
  \/ \E d \in Data : Track(d)

SpecForeground == InitSession /\ [][NextForeground]_vars

\* --------------------------- two browsing contexts, one shared localStorage
\* The second context loads the page: its constructor, on the same storage.
PeerOpen ==
  /\ peer.phase = "closed"
  /\ LET cid == getOrCreateClientId(storage, {})
         ctx0 == [isDestroyed |-> FALSE, session |-> NoSession,
                  clientId |-> cid.clientId, pageLoadId |-> 0,
                  pathname |-> "/"]
         is == initializeSession(cid.storage, {}, now, ctx0, <<>>,
                                 [beacons |-> <<>>, pending |-> <<>>])
     IN /\ storage' = is.storage
        /\ peer' = [phase |-> "live", session |-> is.session,
                    visible |-> TRUE, sessionInterval |-> is.armed,
                    timerDue |-> IF is.armed THEN now + RefreshPeriod ELSE 0]
  /\ lastOp' = "peer-open"
  /\ UNCHANGED <<host, now, visible, readyComplete, pathname, lynqQueue,
                 lynqDefined, phase, trackerVars, perfVars, pending, beacons,
                 thrown>>

\* The refresh interval of the second context fires.
PeerRefreshTick ==
  /\ peer.phase = "live" /\ peer.sessionInterval
  /\ now >= peer.timerDue
  /\ IF peer.visible THEN
       /\ storage' = [storage EXCEPT !.se = StringOf(now + SESSION_DURATION)]
       /\ peer' = [peer EXCEPT
                     !.session.expirationTime = now + SESSION_DURATION,
                     !.timerDue = @ + RefreshPeriod]
     ELSE
       /\ storage' = storage
       /\ peer' = [peer EXCEPT !.timerDue = @ + RefreshPeriod]
  /\ lastOp' = "peer-refresh"
  /\ UNCHANGED <<host, now, visible, readyComplete, pathname, lynqQueue,
                 lynqDefined, phase, trackerVars, perfVars, pending, beacons,
                 thrown>>

\* The second context's page is hidden or shown.
PeerVisibility(v) ==
  /\ peer.phase = "live" /\ peer.visible # v
  /\ peer' = [peer EXCEPT !.visible = v]
  /\ lastOp' = "peer-visibility"
  /\ UNCHANGED <<envVars, trackerVars, perfVars, pending, beacons, thrown>>

NextContexts ==
  \/ TimelyTick
  \/ Construct({})
  \/ RefreshTick(FALSE)
  \/ PageVisible
  \/ PageHidden
  \/ PeerOpen
  \/ PeerRefreshTick
  \/ \E v \in BOOLEAN : PeerVisibility(v)

SpecContexts == InitSession /\ [][NextContexts]_vars

\* ================================================================ claims
CountEvent(b, name) == Cardinality({i \in 1..Len(b) : b[i].event = name})

ConstructStep == phase = "preinit" /\ phase' = "live"
RefreshStep ==
  lastOp' \in {"refresh-ok", "refresh-failed", "refresh-skipped"}
FlushTrigger == lastOp \in {"hidden", "unload"}

\* C1: when no localStorage call of initializeSession throws, the
\* constructor starts a new session if the persisted session id or
\* expiration is absent or now >= the persisted expiration: a generated id
\* that differs from the persisted one, id and now + SESSION_DURATION both
\* persisted, one session-start beacon and no page-view beacon.  Otherwise
\* it resumes: the persisted id and expiration are kept, one page-view
\* beacon and no session-start beacon.
InitializeContract ==
  [][(ConstructStep /\ lastOp' # "failed") =>
       IF storage.si = 0 \/ storage.se = <<>>
            \/ now >= ParseInt(storage.se)
       THEN /\ session'.sessionId # 0
            /\ session'.sessionId # storage.si
            /\ session'.expirationTime = now + SESSION_DURATION
            /\ storage'.si = session'.sessionId
            /\ storage'.se = StringOf(now + SESSION_DURATION)
            /\ CountEvent(beacons', "session-start") = 1
            /\ CountEvent(beacons', "page-view") = 0
       ELSE /\ session'.sessionId = storage.si
            /\ storage'.si = storage.si
            /\ storage'.se = storage.se
            /\ CountEvent(beacons', "page-view") = 1
            /\ CountEvent(beacons', "session-start") = 0]_vars

\* A load that found an expired (or half-written) session and replaced it.
WitnessNewAfterExpiry ==
  /\ lastOp = "new" /\ session.sessionId = 2 /\ storage.si = 2
  /\ now >= SESSION_DURATION
  /\ CountEvent(beacons, "session-start") = 1

\* C2: with a ready session and no destroy(), right after any page-hidden
\* or page-unload trigger exactly one web-vitals beacon has been sent in
\* this page lifetime (on a host that has the performance observer API).
FinalFlushExactlyOnce ==
  (Live /\ host.perf /\ session.sessionId # 0 /\ ~isDestroyed /\ FlushTrigger)
    => CountEvent(beacons, "web-vitals") = 1

\* C3: once destroy() has run, no later step of the page sends a beacon.
NoDispatchAfterDestroy ==
  [][isDestroyed => beacons' = beacons]_vars

\* A caller's trackEvent on a destroyed tracker whose session is ready.
WitnessTrackAfterDestroy ==
  isDestroyed /\ session.sessionId # 0 /\ lastOp = "track"

\* C4: the constructor that makes the session ready sends, after its
\* session-start or page-view beacon, one beacon per entry of
\* window.lynqQueue, in queue order, tagged initial-custom-event for a new
\* session and custom-event for a resumed one, and deletes the queue; no
\* later step of the page refills the queue or takes a beacon back.
QueueFlushedOnce ==
  [][/\ (ConstructStep /\ session'.sessionId # 0) =>
          LET tag == IF session'.sessionId # storage.si
                       THEN "initial-custom-event" ELSE "custom-event"
          IN /\ Len(beacons') = Len(lynqQueue) + 1
             /\ \A i \in 1..Len(lynqQueue) :
                  /\ beacons'[i + 1].event = tag
                  /\ beacons'[i + 1].eventData = CustomData(lynqQueue[i])
             /\ lynqQueue' = <<>>
     /\ (Live /\ phase' = "live" /\ session.sessionId # 0) =>
          /\ lynqQueue' = <<>>
          /\ Len(beacons') >= Len(beacons)
          /\ SubSeq(beacons', 1, Len(beacons)) = beacons
          /\ CountEvent(beacons', "initial-custom-event")
               = CountEvent(beacons, "initial-custom-event")]_vars

\* A resumed session that flushed the queue <<"b", "a">> in that order.
WitnessQueueFlushed ==
  /\ lastOp = "resumed" /\ Len(beacons) = 3
  /\ beacons[1].event = "page-view"
  /\ beacons[2] = [beacons[2] EXCEPT !.event = "custom-event",
                                     !.eventData = CustomData("b")]
  /\ beacons[3] = [beacons[3] EXCEPT !.event = "custom-event",
                                     !.eventData = CustomData("a")]

\* C5: a refresh either leaves the persisted and the in-memory expiration
\* both unchanged or sets both to now + SESSION_DURATION; when setItem
\* throws both are unchanged, and the interval stays armed with a next due
\* time.
RefreshAllOrNothing ==
  [][RefreshStep =>
       /\ \/ /\ storage'.se = storage.se
             /\ session'.expirationTime = session.expirationTime
          \/ /\ storage'.se = StringOf(now + SESSION_DURATION)
             /\ session'.expirationTime = now + SESSION_DURATION
             /\ ParseInt(storage'.se) = session'.expirationTime
       /\ lastOp' = "refresh-failed" =>
            /\ storage' = storage /\ session' = session
       /\ lastOp' = "refresh-ok" =>
            session'.expirationTime = now + SESSION_DURATION
       /\ sessionInterval' /\ timerDue' = timerDue + RefreshPeriod]_vars

\* A refresh whose write failed while the session was about to lapse.
WitnessRefreshFailed ==
  /\ lastOp = "refresh-failed" /\ sessionInterval
  /\ session.expirationTime = ParseInt(storage.se)
  /\ session.expirationTime < now + SESSION_DURATION

\* C6: a refresh sends nothing and keeps the session id (in memory and
\* persisted), the client id and the metrics; on a page that is not
\* visible, or a destroyed tracker, it also keeps both expirations.
RefreshFrame ==
  [][RefreshStep =>
       /\ beacons' = beacons /\ pending' = pending
       /\ session'.sessionId = session.sessionId
       /\ session'.startTime = session.startTime
       /\ storage'.si = storage.si /\ storage'.ci = storage.ci
       /\ clientId' = clientId
       /\ metrics' = metrics
       /\ (~visible \/ isDestroyed) =>
            storage' = storage /\ session' = session]_vars

\* A refresh tick on a hidden page, with the session already lapsed.
WitnessRefreshHidden ==
  /\ lastOp = "refresh-skipped" /\ ~visible
  /\ now >= session.expirationTime

\* C7: a direct trackEvent on a live tracker sends at once when the
\* session is ready; when it is not, the call is parked once on the grace
\* timer, and when the timer fires with the session still unset the call
\* is dropped: nothing is sent, nothing enters window.lynqQueue, nothing is
\* thrown, and the call is gone.
GraceThenDrop ==
  [][/\ (lastOp' = "track" /\ ~isDestroyed /\ session.sessionId # 0) =>
          /\ Len(beacons') = Len(beacons) + 1
          /\ beacons'[Len(beacons')].event = "custom-event"
          /\ beacons'[Len(beacons')].sessionId = session.sessionId
          /\ pending' = pending
     /\ (lastOp' = "track" /\ ~isDestroyed /\ session.sessionId = 0) =>
          /\ beacons' = beacons
          /\ Len(pending') = Len(pending) + 1
          /\ lynqQueue' = lynqQueue /\ thrown' = thrown
     /\ (lastOp' = "resume" /\ session.sessionId = 0) =>
          /\ beacons' = beacons
          /\ pending' = Tail(pending)
          /\ lynqQueue' = lynqQueue /\ thrown' = thrown]_vars

\* A parked call has just been dropped.
WitnessDropped ==
  /\ lastOp = "resume" /\ session = NoSession /\ ~isDestroyed
  /\ pending = <<>> /\ beacons = <<>>

\* C8: while the session is unset after a failed initialisation, no
\* handler of the engine has thrown into the page and nothing has been
\* sent (the hashchange listener is not among the handlers listed).
NoErrorAfterFailedInit ==
  (Live /\ session = NoSession) =>
    /\ thrown \ {"hashchange"} = {}
    /\ beacons = <<>>

\* The metric fields a source feeds are at their defaults.
MetricDefault(src) ==
  CASE src = "paint" -> metrics.fcp = 0
    [] src = "lcp" -> metrics.lcp = 0
    [] src = "cls" -> metrics.cls = 0
    [] src = "inp" -> metrics.inp = 0 /\ metrics.interactionCount = 0
    [] src = "longtasks" -> metrics.tbt = 0
    [] src = "resource" -> metrics.resources = <<>>
    [] src = "navigation" -> metrics.dcl = 0 /\ metrics.load = 0
                             /\ metrics.ttfb = 0 /\ metrics.tti = 0

\* C9: on a host with the observer API where some sources are unsupported,
\* every supported observer source is subscribed, the metric of an
\* unsupported source keeps its default, and the final flush is registered
\* and sent on page hidden or unload.
CapabilityIsolation ==
  (Live /\ host.perf) =>
    /\ \A src \in host.unsupported : MetricDefault(src)
    /\ ~isDestroyed =>
         (Sources \ {"navigation"}) \ host.unsupported \subseteq subscribed
    /\ visibilityTracking
    /\ (session.sessionId # 0 /\ ~isDestroyed /\ FlushTrigger) =>
         CountEvent(beacons, "web-vitals") = 1

\* Grouping by distance from the start of the current grouping, the first
\* entry opening a grouping at its own startTime.
RECURSIVE GroupingFold(_, _)
GroupingFold(acc, entries) ==
  IF entries = <<>> THEN acc
  ELSE LET entry == Head(entries) IN
    GroupingFold(
      IF acc.open /\ entry.startTime - acc.start <= SessionGapMs
        THEN [acc EXCEPT !.sum = @ + entry.value]
        ELSE [open |-> TRUE, start |-> entry.startTime,
              sum |-> entry.value, best |-> Max(acc.best, acc.sum)],
      Tail(entries))

GroupedMaximum(entries) ==
  LET acc == GroupingFold([open |-> FALSE, start |-> 0, sum |-> 0,
                           best |-> 0], entries)
  IN Max(acc.best, acc.sum)

\* C10: cls is the largest sum of values over the groupings of the entries
\* without recent input, where the first entry opens a grouping at its own
\* startTime and an entry opens a new grouping exactly when its startTime
\* is more than SessionGapMs after the start of the current grouping.
ClsIsGroupedMaximum ==
  Live => metrics.cls = GroupedMaximum(sessionEntries)

\* The value at 0-based position k of h in ascending order, by counting.
RankedValue(h, k) ==
  CHOOSE v \in {h[i] : i \in 1..Len(h)} :
    /\ Cardinality({i \in 1..Len(h) : h[i] < v}) <= k
    /\ k < Cardinality({i \in 1..Len(h) : h[i] <= v})

\* C11: once n >= 1 interaction durations have been delivered over all
\* batches, floor(n * 0.75) is an index of the history, inp is the value at
\* that index of the history in ascending order, and interactionCount is n.
InpIsThirdQuartile ==
  LET h == delivered.inp
      n == Len(h)
  IN (Live /\ n >= 1) =>
       /\ (n * 3) \div 4 \in 0..(n - 1)
       /\ metrics.inp = RankedValue(h, (n * 3) \div 4)
       /\ metrics.interactionCount = n

\* Five durations over several batches, the estimate below their maximum.
WitnessInpBelowMaximum ==
  /\ Len(delivered.inp) = 5 /\ signals >= 3
  /\ metrics.inp = 40
  /\ \E i \in 1..5 : delivered.inp[i] = 90
  /\ \E i \in 1..5 : delivered.inp[i] = 20

RECURSIVE BlockingSum(_)
BlockingSum(durations) ==
  IF durations = <<>> THEN 0
  ELSE Max(0, Head(durations) - LongTaskBudgetMs) + BlockingSum(Tail(durations))

\* C12: after every step tbt is the sum, over the long-task entries
\* delivered so far, of max(0, duration - 50), and no step lowers it.
TbtIsBlockingSum ==
  [][/\ metrics'.tbt = BlockingSum(delivered'.longtasks)
     /\ metrics'.tbt >= metrics.tbt]_vars

\* Three long tasks, one of them within the budget, over several batches.
WitnessTbtAccumulated ==
  /\ Len(delivered.longtasks) = 3 /\ metrics.tbt = 60
  /\ \E i \in 1..3 : delivered.longtasks[i] = 30

SignalOps == {"paint", "lcp", "cls", "inp", "longtask", "resource"}

\* C13: every beacon sent during one page load, those of the constructor
\* included, carries the page-load id of that load, and it is defined.
SamePageLoadId ==
  Live => \A i \in 1..Len(beacons) :
            beacons[i].pageLoadId # 0 /\ beacons[i].pageLoadId = pageLoadId

\* C14: the persisted session id never stands without an expiration, and
\* whenever a step replaces the persisted session id the persisted
\* expiration after the step is the one computed for that session,
\* now + SESSION_DURATION.
PersistedTogether ==
  [][/\ storage'.si # 0 => storage'.se # <<>>
     /\ storage'.si # storage.si =>
          storage'.se = StringOf(now + SESSION_DURATION)]_vars

\* C15: a refresh extends the session only while now < expirationTime, and
\* a session that is expired in memory is not valid again after any step
\* under the same session id.
SessionStateMachine ==
  [][/\ lastOp' = "refresh-ok" => now < session.expirationTime
     /\ (session.sessionId # 0 /\ now >= session.expirationTime
           /\ session'.sessionId = session.sessionId) =>
          now' >= session'.expirationTime]_vars

\* C16: destroy() with a ready session, the flush listeners registered and
\* no final flush so far sends exactly one web-vitals beacon; destroy()
\* after the flush sends nothing.
DestroyFlushesOnce ==
  [][(lastOp' = "destroy" /\ ~isDestroyed /\ session.sessionId # 0
        /\ visibilityTracking) =>
       IF finalMetricsSent THEN beacons' = beacons
       ELSE /\ Len(beacons') = Len(beacons) + 1
            /\ beacons'[Len(beacons')].event = "web-vitals"]_vars

\* C17: once destroy() has run no observer is left subscribed, and no
\* signal batch delivered afterwards changes the metrics.
ObserversDisconnected ==
  [][/\ isDestroyed' => subscribed' = {}
     /\ (isDestroyed /\ lastOp' \in SignalOps) => metrics' = metrics]_vars

\* C18: whenever the in-memory session is set, its sessionId is the
\* persisted session id and its expirationTime is the number the persisted
\* expiration string reads as.
InMemoryIsPersisted ==
  (Live /\ session.sessionId # 0) =>
    /\ storage.si = session.sessionId
    /\ ParseInt(storage.se) = session.expirationTime

\* The second session of this storage, resumed by a later load and then
\* refreshed.
WitnessResumedThenRefreshed ==
  /\ lastOp = "refresh-ok" /\ session.sessionId = 2
  /\ session.startTime > 0
  /\ session.expirationTime = now + SESSION_DURATION

\* C19: with the page never hidden, the tracker never destroyed, every
\* write successful and the refresh interval firing on time, a session
\* that is set is valid: now < expirationTime.
NeverExpiresInForeground ==
  (Live /\ session.sessionId # 0) => now < session.expirationTime

\* C20: whenever both contexts hold an unexpired in-memory session the two
\* sessionIds are equal, and a refresh of either context changes the
\* persisted expiration only when the persisted session id is that
\* context's in-memory sessionId.
ContextsAgree ==
  [][/\ (/\ phase' = "live" /\ session'.sessionId # 0
          /\ peer'.session.sessionId # 0
          /\ now' < session'.expirationTime
          /\ now' < peer'.session.expirationTime) =>
          session'.sessionId = peer'.session.sessionId
     /\ (lastOp' = "refresh-ok" /\ storage'.se # storage.se) =>
          storage.si = session.sessionId
     /\ (lastOp' = "peer-refresh" /\ storage'.se # storage.se) =>
          storage.si = peer.session.sessionId]_vars

====
